---- MODULE Spec2Model ----
(***************************************************************************)
(* durable.tools frontend: the cached catalog client (frontend/lib/api.ts) *)
(* and the MachineResults search effect that drives it                     *)
(* (frontend/components/MachineResults.tsx), the query interpreter of      *)
(* MachineResults (useMemo finalParams) and the affiliate link helpers.    *)
(*                                                                         *)
(* The host is single-threaded and event-driven: every action below is one *)
(* macrotask (a call made by a caller, the settling of one network         *)
(* request together with the promise reactions it triggers, a clock        *)
(* advance, a clearCache() call).                                          *)
(***************************************************************************)
EXTENDS Integers, Sequences, FiniteSets, TLC

\* ------------------------------------------------------------------ bounds
\* Number of cachedFetch invocations (each may issue one network request).
MaxCallers == 3
\* Number of clock advances in a behaviour.
MaxTicks == 2
\* Number of searches a MachineResults instance starts (SpecQuery).
MaxSearches == 1
\* Number of cachedFetch calls and of getBestAffiliateLink calls in a
\* behaviour of SpecCalls.
MaxFetchCalls == 1
MaxLinkCalls == 3

\* ------------------------------------------------------- program constants
\* api.ts:26
CACHE_DURATION == 5 * 60 * 1000

\* api.ts:7-9, the base URL outside the browser (server-side rendering).
BaseUrl == "http://backend:8000"

\* ------------------------------------------------------------------ state
VARIABLES
    cache,            \* api.ts:25   Map: url -> [data, timestamp]
    pendingRequests,  \* api.ts:29   Map: url -> promise (id of the request)
    fetches,          \* network calls made by fetch(): id -> [url, status]
    callers,          \* invocations of cachedFetch: id -> record
    now,              \* Date.now()
    ticks,            \* number of clock advances so far
    storedAt,         \* history: url -> [ts, req] of the last response stored
                      \*          since the last clearCache()
    armed,            \* history: urls with a successful request, then a
                      \*          clearCache(), and no cachedFetch since
    cleared,          \* history: the last operation was clearCache()
    results,          \* MachineResults.tsx:984 useState results
    loading,          \* MachineResults.tsx:985 useState loading
    error,            \* MachineResults.tsx:986 useState error
    latest,           \* id of the most recent searchMachines invocation
    outstanding,      \* history: the searches still awaiting their request
                      \*          when the most recent one started
    searchParams,     \* MachineResults.tsx:983 the searchParams prop
    finalParams,      \* MachineResults.tsx:989 useMemo finalParams
    pcUI,             \* MachineResults: "idle", or "rendered" when a render
                      \*          has run and its effect has not
    product,          \* the arguments of the last affiliate-link call
    link,             \* what that call returned
    linkLog,          \* history: the getBestAffiliateLink calls made, in
                      \*          order, with what each returned
    brands,           \* HeaderNav.tsx:12 the brands state
    navCaller,        \* the fetchBrands call of the mounted HeaderNav, whose
                      \*          closure has mounted = true; 0 when none is
    orphans           \* history: the callers answered by a request that
                      \*          pendingRequests no longer tracked

uiVars == <<results, loading, error, latest, outstanding>>
queryVars == <<searchParams, finalParams, pcUI>>
linkVars == <<product, link, linkLog>>
navVars == <<brands, navCaller>>
vars == <<cache, pendingRequests, fetches, callers, now, ticks,
          storedAt, armed, cleared, results, loading, error, latest,
          outstanding, searchParams, finalParams, pcUI, product, link,
          linkLog, brands, navCaller, orphans>>

Callers == 1 .. MaxCallers

\* --------------------------------------------------------------- values
\* A parameter of the object passed to fetchMachines: a key and a value that
\* is a string, a number or null/undefined.
StrParam(k, s) == [key |-> k, kind |-> "string", str |-> s, num |-> 0]
NumParam(k, n) == [key |-> k, kind |-> "number", str |-> "", num |-> n]
NullParam(k) == [key |-> k, kind |-> "null", str |-> "", num |-> 0]

\* String(v), api.ts:99
String(p) == IF p.kind = "number" THEN ToString(p.num) ELSE p.str

\* The parameter objects the callers pass, as their entries in insertion
\* order (Object.entries enumerates string keys in insertion order).
\* Both objects hold brand "LG", year 2024 and an undefined model.
ParamsBrandYear ==
    <<StrParam("brand", "LG"), NullParam("model"), NumParam("year", 2024)>>
ParamsYearBrand ==
    <<NumParam("year", 2024), StrParam("brand", "LG"), NullParam("model")>>
ParamInputs == {ParamsBrandYear, ParamsYearBrand}
\* The finalParams MachineResults searches with: two different queries.
ParamsBosch == <<StrParam("brand", "Bosch"), NumParam("limit", 20)>>
SearchInputs == {ParamsBrandYear, ParamsBosch}

\* The absent value of a result, a response body, an error.
NoResult == [kind |-> "none", req |-> 0, url |-> "", msg |-> ""]
\* res.json() of the response to request r: a fresh object per response.
Body(r, u) == [kind |-> "data", req |-> r, url |-> u, msg |-> ""]
\* res.status of a response that is not ok: 404 when the catalog does not
\* know the resource, 500 for a server error.
StatusOf(outcome) == IF outcome = "notfound" THEN 404 ELSE 500

\* Variant: the error message does not carry the status.
FailureWithoutStatus(r, u, outcome) ==
    [kind |-> "error", req |-> r, url |-> u,
     msg |-> IF outcome \in {"http", "notfound"}
             THEN "API error" ELSE "Failed to fetch"]

\* The error request r ends with: new Error(`API error: ${res.status}`) for
\* a non-success status (api.ts:66) or fetch's own rejection.
Failure(r, u, outcome) ==
    [kind |-> "error", req |-> r, url |-> u,
     msg |-> IF outcome \in {"http", "notfound"}
             THEN "API error: " \o ToString(StatusOf(outcome))
             ELSE "Failed to fetch"]

\* How a network request ends: a 2xx response with a JSON body, a
\* non-success status (api.ts:66), or a network failure (fetch rejects).
Outcomes == {"ok", "http", "net"}
\* The same for a request of /v1/machines/{id}, where the catalog may not
\* know the id.
DetailOutcomes == Outcomes \cup {"notfound"}
\* The same for a request of /v1/brands: the 2xx body either has a brands
\* field ("ok") or has none ("nobrands").
BrandOutcomes == Outcomes \cup {"nobrands"}
\* res.ok (api.ts:66)
Succeeded(outcome) == outcome \in {"ok", "nobrands"}

\* useMemo's value when the interpreter yields no query (null), and a
\* produced query: the entries of the params object in insertion order.
NullQuery == [isNull |-> TRUE, entries |-> <<>>]
Query(entries) == [isNull |-> FALSE, entries |-> entries]

\* A JavaScript Map as a function whose domain is the set of keys present.
EmptyMap == [k \in {} |-> NoResult]
MapSet(m, k, v) == [x \in DOMAIN m \cup {k} |-> IF x = k THEN v ELSE m[x]]
MapDelete(m, k) == [x \in DOMAIN m \ {k} |-> m[x]]

\* A caller that has not called yet.
IdleCaller ==
    [pc |-> "idle", params |-> <<>>, url |-> "", route |-> "none",
     promise |-> 0, servedAge |-> 0,
     storedFresh |-> FALSE, storedReq |-> 0,
     hadStale |-> FALSE, afterClear |-> FALSE, result |-> NoResult]

\* ---------------------------------------------------------- fetchMachines
\* api.ts:98-100: every entry whose value is not null/undefined is set on
\* url.searchParams, in the order Object.entries yields them; the keys of
\* an object are distinct, so set() appends.  url.toString() serialises the
\* search parameters in that order, joined by "&".
RECURSIVE SearchParams(_)
SearchParams(ps) ==
    IF ps = <<>> THEN ""
    ELSE LET p == Head(ps)
             rest == SearchParams(Tail(ps))
         IN  IF p.kind = "null" THEN rest
             ELSE IF rest = "" THEN p.key \o "=" \o String(p)
             ELSE p.key \o "=" \o String(p) \o "&" \o rest

\* api.ts:97,101: new URL(makeUrl('/v1/machines'), base).toString()
MachinesUrl(ps) ==
    LET q == SearchParams(ps)
    IN  IF q = "" THEN BaseUrl \o "/v1/machines"
        ELSE BaseUrl \o "/v1/machines" \o "?" \o q

\* ------------------------------------------------------------ cachedFetch
\* api.ts:40-41: the cache key is the URL string itself.
CacheKey(urlString) == urlString

\* Variants of the freshness test: the comparison turned round, and the
\* window closed at its upper end.
IsFreshInverted(entry, t) == t - entry.timestamp > CACHE_DURATION
IsFreshInclusive(entry, t) == t - entry.timestamp <= CACHE_DURATION

\* api.ts:44: Date.now() - cached.timestamp < CACHE_DURATION
IsFresh(entry, t) == t - entry.timestamp < CACHE_DURATION

\* api.ts:42-51: which of the three paths a call for key k takes.
Route(k) ==
    IF k \in DOMAIN cache /\ IsFresh(cache[k], now) THEN "cache"
    ELSE IF k \in DOMAIN pendingRequests THEN "pending"
    ELSE "network"

\* Network calls that have not completed.
InFlight == {r \in DOMAIN fetches : fetches[r].status = "inflight"}

\* api.ts:39-81: invocation c of cachedFetch(u), made for the parameters
\* ps.  The synchronous part of the call runs to the return.
CachedFetchUrl(c, u, ps) ==
    LET k == CacheKey(u)
        route == Route(k)
        called == [IdleCaller EXCEPT
                     !.params = ps, !.url = u, !.route = route,
                     !.storedFresh = (u \in DOMAIN storedAt
                                      /\ now - storedAt[u].ts < CACHE_DURATION),
                     !.storedReq = IF u \in DOMAIN storedAt
                                   THEN storedAt[u].req ELSE 0,
                     !.hadStale = (k \in DOMAIN cache
                                   /\ now - cache[k].timestamp >= CACHE_DURATION),
                     !.afterClear = (u \in armed)]
    IN  /\ callers[c].pc = "idle"
        /\ \A d \in Callers : d < c => callers[d].pc # "idle"
        /\ armed' = armed \ {u}
        /\ cleared' = FALSE
        /\ UNCHANGED <<cache, now, ticks, storedAt>>
        /\ CASE route = "cache" ->
                 \* api.ts:45
                 /\ callers' = [callers EXCEPT ![c] =
                        [called EXCEPT !.pc = "done",
                                       !.servedAge = now - cache[k].timestamp,
                                       !.result = cache[k].data]]
                 /\ UNCHANGED <<pendingRequests, fetches>>
             [] route = "pending" ->
                 \* api.ts:50
                 /\ callers' = [callers EXCEPT ![c] =
                        [called EXCEPT !.pc = "waiting",
                                       !.promise = pendingRequests[k]]]
                 /\ UNCHANGED <<pendingRequests, fetches>>
             [] route = "network" ->
                 \* api.ts:62-80
                 /\ fetches' = MapSet(fetches, c,
                                      [url |-> u, status |-> "inflight"])
                 /\ pendingRequests' = MapSet(pendingRequests, k, c)
                 /\ callers' = [callers EXCEPT ![c] =
                        [called EXCEPT !.pc = "waiting", !.promise = c]]

\* api.ts:83-102: fetchMachines(ps) is cachedFetch of the machines URL.
CachedFetch(c, ps) == CachedFetchUrl(c, MachinesUrl(ps), ps)

\* Variant: a failed refetch falls back to whatever entry the cache holds.
SettledValueStaleFallback(r, k, outcome) ==
    IF Succeeded(outcome) THEN Body(r, k)
    ELSE IF k \in DOMAIN cache THEN cache[k].data
    ELSE Failure(r, k, outcome)

\* api.ts:65-77: what requestPromise settles with.  A 2xx response resolves
\* it with the parsed body; a non-success status throws in the then-handler
\* and a network failure rejects fetch, and the catch-handler rethrows.
SettledValue(r, k, outcome) ==
    IF Succeeded(outcome) THEN Body(r, k) ELSE Failure(r, k, outcome)

\* Variant: the response cache records whatever the request settled with.
CacheAfterSettleAlways(r, k, outcome) ==
    MapSet(cache, k, [data |-> SettledValue(r, k, outcome), timestamp |-> now])

\* api.ts:70: cache.set on success only.
CacheAfterSettle(r, k, outcome) ==
    IF Succeeded(outcome)
    THEN MapSet(cache, k, [data |-> Body(r, k), timestamp |-> now])
    ELSE cache

\* Variant: the handlers forget pendingRequests.delete(cacheKey).
PendingAfterSettleLeak(k) == pendingRequests

\* Variant: the handlers empty pendingRequests.
PendingAfterSettleAll(k) == EmptyMap

\* api.ts:71,75: pendingRequests.delete(cacheKey) on both paths.
PendingAfterSettle(k) == MapDelete(pendingRequests, k)

\* Variant: only a request that pendingRequests still tracks answers its
\* callers.
WaitersOfTracked(r) ==
    {c \in Callers : /\ callers[c].pc = "waiting"
                     /\ callers[c].promise = r
                     /\ CacheKey(fetches[r].url) \in DOMAIN pendingRequests
                     /\ pendingRequests[CacheKey(fetches[r].url)] = r}

\* Callers whose promise is request r's requestPromise.
Waiters(r) == {c \in Callers : callers[c].pc = "waiting" /\ callers[c].promise = r}

\* api.ts:65-77: network request r ends with `outcome`; the handlers run
\* and every caller holding requestPromise receives its value or error.
Settle(r, outcome) ==
    LET k == CacheKey(fetches[r].url)
        value == SettledValue(r, k, outcome)
    IN  /\ r \in InFlight
        /\ fetches' = [fetches EXCEPT ![r].status = outcome]
        /\ cache' = CacheAfterSettle(r, k, outcome)
        /\ pendingRequests' = PendingAfterSettle(k)
        /\ callers' = [c \in Callers |->
                         IF c \in Waiters(r)
                         THEN [callers[c] EXCEPT !.pc = "done", !.result = value]
                         ELSE callers[c]]
        /\ storedAt' = IF Succeeded(outcome)
                       THEN MapSet(storedAt, k, [ts |-> now, req |-> r])
                       ELSE storedAt
        /\ cleared' = FALSE
        /\ UNCHANGED <<now, ticks, armed>>

\* Variant: clearCache() that forgets pendingRequests.clear().
ClearCacheKeepsTrackers ==
    [cache |-> EmptyMap, pendingRequests |-> pendingRequests]

\* api.ts:143-146
ClearCacheMaps == [cache |-> EmptyMap, pendingRequests |-> EmptyMap]

ClearCacheStep ==
    /\ cache' = ClearCacheMaps.cache
    /\ pendingRequests' = ClearCacheMaps.pendingRequests
    /\ storedAt' = EmptyMap
    /\ armed' = armed \cup {fetches[r].url : r \in {x \in DOMAIN fetches :
                                                     fetches[x].status = "ok"}}
    /\ cleared' = TRUE
    /\ UNCHANGED <<fetches, callers, now, ticks>>

\* Date.now() advances between macrotasks.
Advance == {CACHE_DURATION \div 2}
ClockStep(d) ==
    /\ ticks < MaxTicks
    /\ now' = now + d
    /\ ticks' = ticks + 1
    /\ cleared' = FALSE
    /\ UNCHANGED <<cache, pendingRequests, fetches, callers, storedAt, armed>>

\* ------------------------------------------------------ string primitives
\* Strings are sequences of characters; these are the String.prototype
\* operations and the regular expression the interpreter uses.  The strings
\* are ASCII: the letter e-acute of the French keywords is written "#",
\* which like it has no upper case, is no word character for \b, and is
\* percent-encoded (as the UTF-8 bytes of e-acute).
Char(s, i) == SubSeq(s, i, i)
UpperCase == "ABCDEFGHIJKLMNOPQRSTUVWXYZ"
LowerCase == "abcdefghijklmnopqrstuvwxyz"
Digits == "0123456789"
\* The characters \w matches (no unicode flag: accented letters are not).
WordChars ==
    "ABCDEFGHIJKLMNOPQRSTUVWXYZabcdefghijklmnopqrstuvwxyz0123456789_"

\* String.prototype.includes
Includes(s, t) ==
    \E i \in 1 .. (Len(s) - Len(t) + 1) : SubSeq(s, i, i + Len(t) - 1) = t

LowerChar(ch) ==
    IF Includes(UpperCase, ch)
    THEN Char(LowerCase, CHOOSE i \in 1 .. Len(UpperCase) : Char(UpperCase, i) = ch)
    ELSE ch

\* String.prototype.toLowerCase
RECURSIVE ToLowerCase(_)
ToLowerCase(s) ==
    IF s = "" THEN ""
    ELSE LowerChar(Char(s, 1)) \o ToLowerCase(SubSeq(s, 2, Len(s)))

IsDigit(ch) == Includes(Digits, ch)
\* Position i of s holds a word character (positions outside s do not).
WordAt(s, i) == i >= 1 /\ i <= Len(s) /\ Includes(WordChars, Char(s, i))
\* \b holds between positions i-1 and i.
Boundary(s, i) == WordAt(s, i - 1) # WordAt(s, i)

\* /\b(20\d{2})\b/ matches s at position i.
YearMatchAt(s, i) ==
    /\ i + 3 <= Len(s)
    /\ SubSeq(s, i, i + 1) = "20"
    /\ IsDigit(Char(s, i + 2))
    /\ IsDigit(Char(s, i + 3))
    /\ Boundary(s, i)
    /\ Boundary(s, i + 4)

\* MachineResults.tsx:1025 q.match(/\b(20\d{2})\b/): the captured group of
\* the leftmost match, or "" when match() returns null.
YearMatch(s) ==
    LET hits == {i \in 1 .. Len(s) : YearMatchAt(s, i)}
    IN  IF hits = {} THEN ""
        ELSE LET first == CHOOSE i \in hits : \A j \in hits : i <= j
             IN  SubSeq(s, first, first + 3)

DigitValue(ch) == (CHOOSE i \in 1 .. Len(Digits) : Char(Digits, i) = ch) - 1
\* parseInt of a string of decimal digits.
RECURSIVE ParseInt(_)
ParseInt(s) ==
    IF s = "" THEN 0
    ELSE ParseInt(SubSeq(s, 1, Len(s) - 1)) * 10 + DigitValue(Char(s, Len(s)))

\* ------------------------------------------------------- affiliate links
\* An optional string argument: absent (undefined or null) or a string.
Absent == [present |-> FALSE, str |-> ""]
Str(s) == [present |-> TRUE, str |-> s]
\* JavaScript truthiness of an optional string.
Truthy(v) == v.present /\ v.str # ""
\* v || ""
OrEmpty(v) == IF Truthy(v) THEN v.str ELSE ""

NoProduct ==
    [fn |-> "none", brand |-> "", model |-> Absent, asin |-> Absent,
     amazonProductUrl |-> Absent, tag |-> Absent, locale |-> Absent]
NoLink == [url |-> "", type |-> "none", isDirect |-> FALSE]

\* part_011:13-22 (the same table in frontend/lib/affiliate.ts:13-22)
MARKETPLACE_HOST_BY_LOCALE ==
    [l \in {"fr", "com", "co.uk", "de", "it", "es", "ca", "com.au"} |->
        "www.amazon." \o l]
\* part_011:34 MARKETPLACE_HOST_BY_LOCALE[locale] || MARKETPLACE_HOST_BY_LOCALE.fr
Host(locale) ==
    IF locale \in DOMAIN MARKETPLACE_HOST_BY_LOCALE
    THEN MARKETPLACE_HOST_BY_LOCALE[locale]
    ELSE MARKETPLACE_HOST_BY_LOCALE["fr"]
\* Default parameter values, part_011:27-28: tag = "lebrugere-21",
\* locale = "fr" when the argument is undefined.
TagOf(p) == IF p.tag.present THEN p.tag.str ELSE "lebrugere-21"
LocaleOf(p) == IF p.locale.present THEN p.locale.str ELSE "fr"

\* Variant: the keywords are not trimmed.
TrimNothing(s) == s

\* String.prototype.trim over the whitespace the inputs hold (spaces).
RECURSIVE Trim(_)
Trim(s) ==
    IF s = "" THEN ""
    ELSE IF Char(s, 1) = " " THEN Trim(SubSeq(s, 2, Len(s)))
    ELSE IF Char(s, Len(s)) = " " THEN Trim(SubSeq(s, 1, Len(s) - 1))
    ELSE s

\* Percent-encoding of the characters the inputs hold that are not left
\* alone (UTF-8 bytes).
PercentEncoded(ch) ==
    CASE ch = " " -> "%20"
      [] ch = "&" -> "%26"
      [] ch = "+" -> "%2B"
      [] ch = "#" -> "%C3%A9"
      [] ch = "!" -> "%21"
      [] ch = "'" -> "%27"
      [] ch = "(" -> "%28"
      [] ch = ")" -> "%29"
      [] ch = "~" -> "%7E"
      [] ch = "*" -> "%2A"
      [] ch = "/" -> "%2F"
      [] ch = ":" -> "%3A"
      [] ch = "?" -> "%3F"
      [] ch = "=" -> "%3D"

AlphaNumeric ==
    "ABCDEFGHIJKLMNOPQRSTUVWXYZabcdefghijklmnopqrstuvwxyz0123456789"

\* encodeURIComponent: A-Z a-z 0-9 - _ . ! ~ * ' ( ) are left alone.
RECURSIVE EncodeURIComponent(_)
EncodeURIComponent(s) ==
    IF s = "" THEN ""
    ELSE LET ch == Char(s, 1)
         IN  (IF Includes(AlphaNumeric \o "-_.!~*'()", ch)
              THEN ch ELSE PercentEncoded(ch))
             \o EncodeURIComponent(SubSeq(s, 2, Len(s)))

\* URLSearchParams serialisation (application/x-www-form-urlencoded):
\* A-Z a-z 0-9 * - . _ are left alone and a space becomes "+".
RECURSIVE FormUrlEncode(_)
FormUrlEncode(s) ==
    IF s = "" THEN ""
    ELSE LET ch == Char(s, 1)
         IN  (IF Includes(AlphaNumeric \o "*-._", ch) THEN ch
              ELSE IF ch = " " THEN "+"
              ELSE PercentEncoded(ch))
             \o FormUrlEncode(SubSeq(s, 2, Len(s)))

\* part_011:24-39 buildAmazonAffiliateSearchUrl
BuildAmazonAffiliateSearchUrl(p) ==
    LET host == Host(LocaleOf(p))
        searchQuery == Trim(p.brand \o " " \o OrEmpty(p.model))
        encodedQuery == EncodeURIComponent(searchQuery)
    IN  "https://" \o host \o "/s?k=" \o encodedQuery \o "&tag=" \o TagOf(p)

\* [brand, model || ""].filter(Boolean).join(" ")
JoinTruthy(a, b) ==
    IF a = "" THEN b ELSE IF b = "" THEN a ELSE a \o " " \o b

\* frontend/lib/affiliate.ts:24-41 buildAmazonAffiliateSearchUrl: the URL
\* is assembled by URL.searchParams.set and serialised by url.toString().
BuildAmazonAffiliateSearchUrlLib(p) ==
    LET host == Host(LocaleOf(p))
        keywords == Trim(JoinTruthy(p.brand, OrEmpty(p.model)))
    IN  "https://" \o host \o "/s?k=" \o FormUrlEncode(keywords)
        \o "&tag=" \o FormUrlEncode(TagOf(p))

\* part_011:41-52 buildAmazonAffiliateProductUrl
BuildAmazonAffiliateProductUrl(p) ==
    "https://" \o Host(LocaleOf(p)) \o "/dp/" \o p.asin.str
    \o "?tag=" \o TagOf(p)

\* Variant: the ASIN is looked at before the direct product URL.
GetBestAffiliateLinkAsinFirst(p) ==
    IF Truthy(p.asin)
    THEN [url |-> BuildAmazonAffiliateProductUrl(p), type |-> "product",
          isDirect |-> TRUE]
    ELSE IF Truthy(p.amazonProductUrl)
    THEN [url |-> p.amazonProductUrl.str, type |-> "product", isDirect |-> TRUE]
    ELSE [url |-> BuildAmazonAffiliateSearchUrl(p), type |-> "search",
          isDirect |-> FALSE]

\* Variant: the link depends on module state, the direct links being
\* given up once the response cache holds an entry.
GetBestAffiliateLinkStateful(p) ==
    IF DOMAIN cache = {} /\ Truthy(p.amazonProductUrl)
    THEN [url |-> p.amazonProductUrl.str, type |-> "product", isDirect |-> TRUE]
    ELSE [url |-> BuildAmazonAffiliateSearchUrl(p), type |-> "search",
          isDirect |-> FALSE]

\* part_011:54-93 getBestAffiliateLink
GetBestAffiliateLink(p) ==
    IF Truthy(p.amazonProductUrl)
    THEN [url |-> p.amazonProductUrl.str, type |-> "product", isDirect |-> TRUE]
    ELSE IF Truthy(p.asin)
    THEN [url |-> BuildAmazonAffiliateProductUrl(p), type |-> "product",
          isDirect |-> TRUE]
    ELSE [url |-> BuildAmazonAffiliateSearchUrl(p), type |-> "search",
          isDirect |-> FALSE]

\* ------------------------------------------------- specification: client
Init ==
    /\ cache = EmptyMap
    /\ pendingRequests = EmptyMap
    /\ fetches = EmptyMap
    /\ callers = [c \in Callers |-> IdleCaller]
    /\ now = 0
    /\ ticks = 0
    /\ storedAt = EmptyMap
    /\ armed = {}
    /\ cleared = FALSE
    /\ results = NoResult
    /\ loading = FALSE
    /\ error = NoResult
    /\ latest = 0
    /\ outstanding = {}
    /\ searchParams = <<>>
    /\ finalParams = NullQuery
    /\ pcUI = "idle"
    /\ product = NoProduct
    /\ link = NoLink
    /\ linkLog = <<>>
    /\ brands = <<>>
    /\ navCaller = 0
    /\ orphans = {}

\* Some component calls fetchMachines(ps).
FetchMachines(c, ps) ==
    CachedFetch(c, ps) /\ UNCHANGED <<uiVars, queryVars, linkVars, navVars, orphans>>
Complete(r, outcome) ==
    Settle(r, outcome) /\ UNCHANGED <<uiVars, queryVars, linkVars, navVars, orphans>>
ClearCache == ClearCacheStep /\ UNCHANGED <<uiVars, queryVars, linkVars, navVars, orphans>>
Tick(d) == ClockStep(d) /\ UNCHANGED <<uiVars, queryVars, linkVars, navVars, orphans>>

Next ==
    \/ \E c \in Callers, ps \in ParamInputs : FetchMachines(c, ps)
    \/ \E r \in Callers, outcome \in Outcomes : Complete(r, outcome)
    \/ ClearCache
    \/ \E d \in Advance : Tick(d)

Spec == Init /\ [][Next]_vars

\* ------------------------------------------ specification: MachineResults
\* MachineResults.tsx:1039-1061.  finalParams changes to ps (non-null): the
\* effect runs searchMachines, which sets loading, clears the error and
\* awaits fetchMachines(finalParams).  When cachedFetch returns cached data
\* the awaited promise is already resolved and the continuation runs in the
\* same macrotask.
SearchMachines(c, ps) ==
    LET k == CacheKey(MachinesUrl(ps))
    IN  /\ CachedFetch(c, ps)
        /\ latest' = c
        /\ outstanding' = {d \in Callers : callers[d].pc = "waiting"}
        /\ error' = NoResult
        /\ IF Route(k) = "cache"
           THEN /\ results' = cache[k].data
                /\ loading' = FALSE
           ELSE /\ loading' = TRUE
                /\ UNCHANGED results

\* MachineResults.tsx:1046-1052: the continuation of every searchMachines
\* invocation awaiting request r: setResults(data) or setError(message),
\* then setLoading(false).  Nothing in it looks at which query is current.
Continuation(value) ==
    [results |-> IF value.kind = "data" THEN value ELSE results,
     error |-> IF value.kind = "error" THEN value ELSE error,
     loading |-> FALSE]

SearchCompletes(r, outcome) ==
    LET after == Continuation(SettledValue(r, CacheKey(fetches[r].url), outcome))
    IN  /\ Settle(r, outcome)
        /\ results' = after.results
        /\ error' = after.error
        /\ loading' = after.loading
        /\ UNCHANGED <<latest, outstanding>>

NextUI ==
    \/ \E c \in Callers, ps \in SearchInputs :
          SearchMachines(c, ps) /\ UNCHANGED <<queryVars, linkVars, navVars, orphans>>
    \/ \E r \in Callers, outcome \in Outcomes :
          SearchCompletes(r, outcome) /\ UNCHANGED <<queryVars, linkVars, navVars, orphans>>
    \/ ClearCache
    \/ \E d \in Advance : Tick(d)

SpecUI == Init /\ [][NextUI]_vars

\* ------------------------------------- MachineResults: the interpreter
\* MachineResults.tsx:998-1035: the params object built from a non-empty
\* free-text query q, as its entries in insertion order (an assignment to
\* a key that exists, like params.limit = 15, keeps the key's position).
KeywordRules(q) ==
    LET queryLower == ToLowerCase(q)
        yearMatch == YearMatch(q)
    IN  IF Includes(queryLower, "r#parable")
           \/ Includes(queryLower, "repairability")
        THEN <<NumParam("limit", 20),
               StrParam("sort_by", "note_reparabilite"),
               StrParam("sort_order", "DESC"),
               NumParam("min_repairability", 7)>>
        ELSE IF Includes(queryLower, "fiable")
                \/ Includes(queryLower, "reliability")
        THEN <<NumParam("limit", 20),
               StrParam("sort_by", "note_fiabilite"),
               StrParam("sort_order", "DESC"),
               NumParam("min_reliability", 6)>>
        ELSE IF Includes(queryLower, "durable")
                \/ Includes(queryLower, "durability")
        THEN <<NumParam("limit", 20),
               StrParam("sort_by", "note_id"),
               StrParam("sort_order", "DESC")>>
        ELSE IF Includes(queryLower, "excellent")
                \/ Includes(queryLower, "meilleur")
        THEN <<NumParam("limit", 15),
               NumParam("min_repairability", 8),
               NumParam("min_reliability", 7),
               StrParam("sort_by", "note_id"),
               StrParam("sort_order", "DESC")>>
        ELSE IF Includes(queryLower, "bon march#")
                \/ Includes(queryLower, "#conomique")
        THEN <<NumParam("limit", 15),
               NumParam("max_repairability", 6),
               NumParam("max_reliability", 6),
               StrParam("sort_by", "note_id"),
               StrParam("sort_order", "DESC")>>
        ELSE IF Includes(queryLower, "2025") \/ Includes(queryLower, "2024")
        THEN <<NumParam("limit", 20)>>
             \o (IF yearMatch # ""
                 THEN <<NumParam("year", ParseInt(yearMatch))>> ELSE <<>>)
             \o <<StrParam("sort_by", "date_calcul"),
                  StrParam("sort_order", "DESC")>>
        ELSE IF Includes(queryLower, "hublot") \/ Includes(queryLower, "top")
                \/ Includes(queryLower, "front")
                \/ Includes(queryLower, "charge")
        THEN <<NumParam("limit", 20), StrParam("q", q)>>
        ELSE <<NumParam("limit", 20), StrParam("q", q)>>

HasKey(sp, k) == \E i \in DOMAIN sp : sp[i].key = k
Entry(sp, k) == sp[CHOOSE i \in DOMAIN sp : sp[i].key = k]

\* MachineResults.tsx:991: urlParams.q when it is a string, else undefined
\* (the inputs hold no array-valued q).
QueryText(sp) ==
    IF HasKey(sp, "q") /\ Entry(sp, "q").kind = "string"
    THEN [undefined |-> FALSE, str |-> Entry(sp, "q").str]
    ELSE [undefined |-> TRUE, str |-> ""]
\* !q
Falsy(q) == q.undefined \/ q.str = ""

\* Variant: without a free-text term the interpreter yields no query.
FinalParamsNullWithoutText(sp) ==
    IF Falsy(QueryText(sp)) THEN NullQuery
    ELSE Query(KeywordRules(QueryText(sp).str))

\* Variant: explicit parameters win over the free-text term.
FinalParamsExplicitFirst(sp) ==
    LET explicit == SelectSeq(sp, LAMBDA e : e.key # "q")
    IN  IF explicit # <<>> THEN Query(explicit)
        ELSE IF Falsy(QueryText(sp)) THEN NullQuery
        ELSE Query(KeywordRules(QueryText(sp).str))

\* MachineResults.tsx:989-1036: the useMemo callback.
FinalParams(sp) ==
    LET q == QueryText(sp)
    IN  IF Falsy(q)
        THEN IF Len(sp) > 0 THEN Query(sp) ELSE NullQuery
        ELSE Query(KeywordRules(q.str))

\* The free-text queries typed or linked to (SearchBox.tsx:16,41-65 pushes
\* /?q=...): every rule alone, several rules at once, years inside and
\* outside 2024/2025, a year with no word boundary, brand names.
RawQueries ==
    {"plus r#parable", "Samsung plus r#parable", "R#parable et fiable",
     "plus fiable", "durable", "Bosch durable 2024", "excellent",
     "meilleur bon march#", "#conomique 2025", "2025", "LG 2024", "2023",
     "Samsung 2023", "modele2024x", "2019 ou 2024", "Samsung",
     "whirlpool top", "hublot", "lave-linge", "REPAIRABILITY"}

\* Explicit parameters of a URL: none, a brand alone, and what HeaderNav
\* pushes (HeaderNav.tsx:26-29 selectBrand, 31-40 selectPerformance).
ExplicitInputs ==
    {<<>>,
     <<StrParam("brand", "Samsung")>>,
     <<StrParam("sort_by", "note_id"), StrParam("sort_order", "DESC")>>,
     <<StrParam("brand", "Samsung"), StrParam("sort_by", "id"),
       StrParam("sort_order", "DESC")>>}

\* The searchParams objects MachineResults is rendered with: q absent, empty
\* or a raw query, next to the explicit parameters.
SearchParamsInputs ==
    ExplicitInputs
    \cup {<<StrParam("q", q)>> \o e : q \in RawQueries \cup {""},
                                      e \in ExplicitInputs}

\* ------------------------------ specification: MachineResults interpreter
clientVars == <<cache, pendingRequests, fetches, callers, now, ticks,
                storedAt, armed, cleared>>

\* Number of searches MachineResults has started.
Searches == Cardinality({c \in Callers : callers[c].pc # "idle"})

\* MachineResults.tsx:983-1036: the component renders with props sp and
\* useMemo recomputes finalParams (searchParams is a new object on every
\* navigation).  The effect of that render has not run yet.
Render(sp) ==
    /\ pcUI # "rendered"
    /\ Searches < MaxSearches
    /\ searchParams' = sp
    /\ finalParams' = FinalParams(sp)
    /\ pcUI' = "rendered"
    /\ UNCHANGED <<clientVars, uiVars, linkVars, navVars, orphans>>

\* MachineResults.tsx:1055-1061: the effect of the render.  Without a
\* query it sets results to null and returns; with one it runs
\* searchMachines (1039-1053), which calls fetchMachines(finalParams).
Effect ==
    /\ pcUI = "rendered"
    /\ UNCHANGED <<searchParams, finalParams, linkVars, navVars, orphans>>
    /\ IF finalParams.isNull
       THEN /\ pcUI' = "skipped"
            /\ results' = NoResult
            /\ UNCHANGED <<clientVars, loading, error, latest, outstanding>>
       ELSE /\ pcUI' = "searched"
            /\ \E c \in Callers : SearchMachines(c, finalParams.entries)

NextQuery ==
    \/ \E sp \in SearchParamsInputs : Render(sp)
    \/ Effect
    \/ \E r \in Callers, outcome \in Outcomes :
          SearchCompletes(r, outcome) /\ UNCHANGED <<queryVars, linkVars, navVars, orphans>>

SpecQuery == Init /\ [][NextQuery]_vars

\* ------------------------------------------ specification: affiliate links
\* The arguments components pass (frontend/components/MachineResults.tsx
\* passes brand, model, asin and amazonProductUrl of a machine).
Brands == {"LG", "", "Miele"}
Models == {Absent, Str(""), Str("F4V510WSE"), Str("WW 90")}
Asins == {Absent, Str(""), Str("B08XYZ1234")}
ProductUrls ==
    {Absent, Str(""), Str("https://www.amazon.fr/dp/B0TTTTTTTT?th=1")}
Tags == {Absent, Str("shop-21")}
Locales == {Absent, Str("fr"), Str("de")}

LinkArgs ==
    [fn : {"getBestAffiliateLink"}, brand : Brands, model : Models,
     asin : Asins, amazonProductUrl : ProductUrls, tag : Tags,
     locale : Locales]
SearchArgs ==
    [fn : {"part_011", "lib/affiliate.ts"}, brand : Brands, model : Models,
     asin : {Absent}, amazonProductUrl : {Absent}, tag : Tags,
     locale : Locales]

\* A component calls getBestAffiliateLink(p).  The functions keep no
\* state, so a behaviour holds one call.
ResolveLink(p) ==
    /\ product = NoProduct
    /\ product' = p
    /\ link' = GetBestAffiliateLink(p)
    /\ UNCHANGED <<clientVars, uiVars, queryVars, linkLog, navVars, orphans>>

\* A component calls buildAmazonAffiliateSearchUrl(p) of the module named
\* by p.fn; the string it returns is recorded as a search link.
BuildSearchUrl(p) ==
    /\ product = NoProduct
    /\ product' = p
    /\ link' = [url |-> IF p.fn = "part_011"
                        THEN BuildAmazonAffiliateSearchUrl(p)
                        ELSE BuildAmazonAffiliateSearchUrlLib(p),
                type |-> "search", isDirect |-> FALSE]
    /\ UNCHANGED <<clientVars, uiVars, queryVars, linkLog, navVars, orphans>>

NextLink ==
    \/ \E p \in LinkArgs : ResolveLink(p)
    \/ \E p \in SearchArgs : BuildSearchUrl(p)

SpecLink == Init /\ [][NextLink]_vars

\* -------------------- specification: link calls among cache operations
\* getBestAffiliateLink called again and again, with the cached client
\* working in between.
RepeatedArgs ==
    {[fn |-> "getBestAffiliateLink", brand |-> "LG",
      model |-> Str("F4V510WSE"), asin |-> Str("B08XYZ1234"),
      amazonProductUrl |-> Str("https://www.amazon.fr/dp/B0TTTTTTTT?th=1"),
      tag |-> Absent, locale |-> Str("fr")],
     [fn |-> "getBestAffiliateLink", brand |-> "Miele",
      model |-> Str("WW 90"), asin |-> Absent,
      amazonProductUrl |-> Absent, tag |-> Absent, locale |-> Str("fr")]}

\* A component calls getBestAffiliateLink(p); the call is logged with
\* whether the response cache held an entry at the time.
CallLink(p) ==
    /\ Len(linkLog) < MaxLinkCalls
    /\ product' = p
    /\ link' = GetBestAffiliateLink(p)
    /\ linkLog' = Append(linkLog, [args |-> p,
                                   link |-> GetBestAffiliateLink(p),
                                   cached |-> DOMAIN cache # {}])
    /\ UNCHANGED <<clientVars, uiVars, queryVars, navVars, orphans>>

CallCachedFetch(c, ps) == Searches < MaxFetchCalls /\ FetchMachines(c, ps)

NextCalls ==
    \/ \E p \in RepeatedArgs : CallLink(p)
    \/ \E c \in Callers, ps \in ParamInputs : CallCachedFetch(c, ps)
    \/ \E r \in Callers, outcome \in Outcomes : Complete(r, outcome)
    \/ ClearCache

SpecCalls == Init /\ [][NextCalls]_vars

\* ------------------------------------------ specification: MachineDetails
\* api.ts:126-129: the URL fetchMachineDetails(machineId) passes to
\* cachedFetch.
DetailsUrl(machineId) == BaseUrl \o "/v1/machines/" \o ToString(machineId)

\* The machine ids MachineDetails is shown for; the catalog knows the
\* first only.
KnownIds == {1}
MachineIds == {1, 2}
\* How a request for the details of machineId may end.
OutcomesFor(u) ==
    IF \E id \in KnownIds : u = DetailsUrl(id)
    THEN Outcomes ELSE {"notfound", "http", "net"}

\* HeaderNav.tsx:204-224 MachineDetails: the component is rendered for
\* machineId and its effect runs loadMachineDetails, which awaits
\* fetchMachineDetails(machineId).  loading starts as true; the effect
\* resets neither machine nor error.  Cached data resolves the await in the
\* same macrotask.
LoadMachineDetails(c, machineId) ==
    LET u == DetailsUrl(machineId)
        k == CacheKey(u)
    IN  /\ CachedFetchUrl(c, u, <<NumParam("machineId", machineId)>>)
        /\ latest' = c
        /\ outstanding' = {d \in Callers : callers[d].pc = "waiting"}
        /\ UNCHANGED error
        /\ IF Route(k) = "cache"
           THEN /\ results' = cache[k].data
                /\ loading' = FALSE
           ELSE /\ loading' = (latest = 0 \/ loading)
                /\ UNCHANGED results
        /\ UNCHANGED <<queryVars, linkVars, navVars, orphans>>

\* HeaderNav.tsx:212-219: setMachine(data) or setError(message), then
\* setLoading(false).
DetailsContinuation(value) ==
    [results |-> IF value.kind = "data" THEN value ELSE results,
     error |-> IF value.kind = "error" THEN value ELSE error,
     loading |-> FALSE]

DetailsCompletes(r, outcome) ==
    LET after == DetailsContinuation(
                     SettledValue(r, CacheKey(fetches[r].url), outcome))
    IN  /\ r \in InFlight
        /\ outcome \in OutcomesFor(fetches[r].url)
        /\ Settle(r, outcome)
        /\ results' = after.results
        /\ error' = after.error
        /\ loading' = after.loading
        /\ UNCHANGED <<latest, outstanding, queryVars, linkVars, navVars, orphans>>

NextDetails ==
    \/ \E c \in Callers, machineId \in MachineIds :
          LoadMachineDetails(c, machineId)
    \/ \E r \in Callers, outcome \in DetailOutcomes :
          DetailsCompletes(r, outcome)
    \/ ClearCache
    \/ \E d \in Advance : Tick(d)

SpecDetails == Init /\ [][NextDetails]_vars

\* ------------------------------------------------ specification: brands
\* api.ts:131-135: fetchBrands() requests /v1/brands.
BrandsUrl == BaseUrl \o "/v1/brands"

\* The catalog's brand names; the response to request r lists the brands
\* known when it is served, more of them for a later request.
CatalogBrands == <<"Bosch", "LG", "Miele", "Samsung">>
BrandsOfResponse(r) ==
    SubSeq(CatalogBrands, 1,
           IF r < Len(CatalogBrands) THEN r ELSE Len(CatalogBrands))

\* api.ts:134: data.brands || [] for the body of request r, which ended
\* with `status`.
FetchBrandsResult(r, status) ==
    IF status = "ok" THEN BrandsOfResponse(r) ELSE <<>>

\* Variant: the catch-handler shows the error in place of the list.
NavContinuationFatal(r, outcome) ==
    IF navCaller # 0 /\ navCaller \in Waiters(r)
    THEN IF Succeeded(outcome) THEN FetchBrandsResult(r, outcome)
         ELSE <<Failure(r, BrandsUrl, outcome).msg>>
    ELSE brands

\* HeaderNav.tsx:16-18: the brands state after request r ends.  The
\* then-handler of the mounted instance stores the list; the catch-handler
\* does nothing.
NavContinuation(r, outcome) ==
    IF navCaller # 0 /\ navCaller \in Waiters(r) /\ Succeeded(outcome)
    THEN FetchBrandsResult(r, outcome)
    ELSE brands

\* HeaderNav.tsx:12-20: a HeaderNav mounts with brands = [] and its effect
\* calls fetchBrands(); a fresh cache entry resolves it at once.
MountNav(c) ==
    LET k == CacheKey(BrandsUrl)
    IN  /\ navCaller = 0
        /\ CachedFetchUrl(c, BrandsUrl, <<>>)
        /\ navCaller' = c
        /\ brands' = IF Route(k) = "cache"
                     THEN FetchBrandsResult(cache[k].data.req,
                                            fetches[cache[k].data.req].status)
                     ELSE <<>>
        /\ UNCHANGED <<uiVars, queryVars, linkVars, orphans>>

\* HeaderNav.tsx:19: the cleanup sets mounted = false; the instance and
\* its state are gone.
UnmountNav ==
    /\ navCaller # 0
    /\ navCaller' = 0
    /\ brands' = <<>>
    /\ UNCHANGED <<clientVars, uiVars, queryVars, linkVars, orphans>>

\* The request of /v1/brands ends and the handlers of HeaderNav run.
BrandsCompletes(r, outcome) ==
    /\ Settle(r, outcome)
    /\ brands' = NavContinuation(r, outcome)
    /\ UNCHANGED <<navCaller, uiVars, queryVars, linkVars, orphans>>

NextBrands ==
    \/ \E c \in Callers : MountNav(c)
    \/ UnmountNav
    \/ \E r \in Callers, outcome \in BrandOutcomes : BrandsCompletes(r, outcome)
    \/ ClearCache
    \/ \E d \in Advance : Tick(d)

SpecBrands == Init /\ [][NextBrands]_vars

\* ---------------------------------------------- specification: liveness
\* The client of the first specification for a single clock value, with
\* the assumption that every network call issued eventually completes.
\* The completion records the callers it answers although the tracker of
\* its request is gone from pendingRequests.
Untracked(r) ==
    LET k == CacheKey(fetches[r].url)
    IN  k \notin DOMAIN pendingRequests \/ pendingRequests[k] # r

CompleteLive(r, outcome) ==
    /\ Settle(r, outcome)
    /\ orphans' = IF Untracked(r) THEN orphans \cup Waiters(r) ELSE orphans
    /\ UNCHANGED <<uiVars, queryVars, linkVars, navVars>>

\* Every caller asks for the same URL: the callers of one key are the ones
\* that share, lose and replace a tracker.
LiveInputs == {ParamsBrandYear}

NextLive ==
    \/ \E c \in Callers, ps \in LiveInputs : FetchMachines(c, ps)
    \/ \E r \in Callers, outcome \in Outcomes : CompleteLive(r, outcome)
    \/ ClearCache

\* fetch() settles its promise for every request: the browser answers or
\* fails each one.
NetworkCompletes ==
    \A r \in Callers : WF_vars(\E outcome \in Outcomes : CompleteLive(r, outcome))

SpecLive == Init /\ [][NextLive]_vars /\ NetworkCompletes

\* ----------------------------------------------------------------- claims
Called(c) == callers[c].pc # "idle"
Done(c) == callers[c].pc = "done"
\* Two parameter objects with the same keys and values.
SameEntries(p, q) == {p[i] : i \in DOMAIN p} = {q[i] : i \in DOMAIN q}

\* C1: in every reachable state each cache key has at most one network
\* call outstanding.
C1_AtMostOneOutstandingPerKey ==
    \A r1, r2 \in InFlight :
        CacheKey(fetches[r1].url) = CacheKey(fetches[r2].url) => r1 = r2

\* C2: a cachedFetch(u) made while an earlier cachedFetch(u) is in flight
\* issues no network request and shares the earlier call's promise, and
\* callers sharing it get the same outcome.
C2_SecondCallJoinsInFlight ==
    \A c1, c2 \in Callers :
        /\ (/\ c1 < c2 /\ Called(c2)
            /\ callers[c1].url = callers[c2].url
            /\ callers[c1].promise \in InFlight)
           => /\ callers[c2].route # "network"
              /\ callers[c2].promise = callers[c1].promise
        /\ (/\ Done(c1) /\ Done(c2)
            /\ callers[c1].promise # 0
            /\ callers[c1].promise = callers[c2].promise)
           => callers[c1].result = callers[c2].result

\* C3: when the parameters change from Q1 to Q2 while Q1's request is in
\* flight, then once both have completed (Q2 with data) the results in UI
\* state are Q2's.
C3_LatestQueryShown ==
    \A c1 \in outstanding :
        (Done(c1) /\ Done(latest) /\ callers[latest].result.kind = "data")
        => results = callers[latest].result

\* C4: the completion of a superseded search writes nothing to UI state:
\* results and error keep their values, and loading is not cleared while
\* the newest search is outstanding.
C4_SupersededDoesNotWrite ==
    [][\A c \in Callers :
          (/\ callers[c].pc = "waiting"
           /\ callers'[c].pc = "done"
           /\ c # latest
           /\ callers'[latest].pc = callers[latest].pc)
          => /\ results' = results
             /\ error' = error
             /\ callers[latest].pc = "waiting" => loading' = loading]_vars

\* C5: a call for a URL whose response was stored less than CACHE_DURATION
\* ago, with no clearCache() since, returns the stored data and makes no
\* network call.
C5_FreshEntryServed ==
    \A c \in Callers :
        (Called(c) /\ callers[c].storedFresh) =>
            /\ callers[c].route = "cache"
            /\ Done(c)
            /\ callers[c].result = Body(callers[c].storedReq, callers[c].url)
            /\ c \notin DOMAIN fetches

C5_Witness ==
    \E c \in Callers :
        /\ Done(c) /\ callers[c].storedFresh
        /\ callers[c].servedAge > 0
        /\ Cardinality({r \in DOMAIN fetches : fetches[r].url = callers[c].url}) = 1

\* C6: an entry whose age has reached CACHE_DURATION is never returned: a
\* call that finds one goes to the network or joins a pending request.
C6_StaleEntryNeverServed ==
    \A c \in Callers :
        Called(c) =>
            /\ callers[c].route = "cache" => callers[c].servedAge < CACHE_DURATION
            /\ callers[c].hadStale => callers[c].route \in {"pending", "network"}

C6_Witness ==
    \E c \in Callers :
        /\ callers[c].hadStale
        /\ callers[c].route = "pending"
        /\ Done(c)

\* C7: after a successful request for u and then a clearCache(), the next
\* cachedFetch(u) issues a network call.
C7_NextCallAfterClearRefetches ==
    \A c \in Callers :
        (Called(c) /\ callers[c].afterClear) => callers[c].route = "network"

\* C8: right after clearCache() the cache holds no entry and the in-flight
\* map no tracker.
C8_ClearDropsEverything ==
    cleared => (DOMAIN cache = {} /\ DOMAIN pendingRequests = {})

C8_Witness ==
    /\ cleared
    /\ InFlight # {}
    /\ \E r \in DOMAIN fetches : fetches[r].status = "ok"

\* C9: parameter objects with the same keys and values in a different
\* insertion order use the same cache key, so the second request joins the
\* first instead of making a network call.
C9_KeyIgnoresInsertionOrder ==
    \A c1, c2 \in Callers :
        (Called(c1) /\ Called(c2)
         /\ SameEntries(callers[c1].params, callers[c2].params))
        => /\ CacheKey(callers[c1].url) = CacheKey(callers[c2].url)
           /\ (c1 < c2 /\ callers[c1].promise \in InFlight)
              => callers[c2].route # "network"

\* C10: a call that finds a stale entry and whose refetch fails receives
\* the error, never the stale data; data comes from the cache only when the
\* entry was fresh at the call.
C10_FailedRefetchGivesError ==
    \A c \in Callers :
        /\ (/\ callers[c].hadStale
            /\ Done(c)
            /\ fetches[callers[c].promise].status \in {"http", "net"})
           => callers[c].result =
                  Failure(callers[c].promise, callers[c].url,
                          fetches[callers[c].promise].status)
        /\ (Called(c) /\ callers[c].route = "cache") => ~callers[c].hadStale

C10_Witness ==
    \E c \in Callers :
        /\ callers[c].hadStale
        /\ Done(c)
        /\ callers[c].result.kind = "error"


\* C11: when the network call of request r ends with a non-success status
\* or a network failure, every caller awaiting it is rejected with the
\* error, and that step leaves the response cache exactly as it was: no
\* entry is created or modified.
C11_FailureLeavesCacheUntouched ==
    [][\A r \in Callers :
          (r \in InFlight /\ fetches'[r].status \in {"http", "net"})
          => /\ cache' = cache
             /\ Waiters(r) # {}
             /\ \A c \in Waiters(r) :
                    /\ callers'[c].pc = "done"
                    /\ callers'[c].result =
                           Failure(r, fetches[r].url, fetches'[r].status)]_vars

\* A request for u has failed while the cache held an entry for u.
C11_Witness ==
    \E r \in DOMAIN fetches :
        /\ fetches[r].status \in {"http", "net"}
        /\ callers[r].result.kind = "error"
        /\ fetches[r].url \in DOMAIN cache
        /\ cache[fetches[r].url].data.req < r


\* ---- MachineResults interpreter
\* finalParams is the interpretation of searchParams.
Rendered == pcUI # "idle"
\* The effect of the last render has run.
EffectRan == pcUI \in {"skipped", "searched"}
\* The value of key k in a parameter object, "" when there is none.
Value(ps, k) == IF HasKey(ps, k) THEN String(Entry(ps, k)) ELSE ""
\* A parameter object as a set of key/value pairs.
Pairs(ps) == {<<ps[i].key, String(ps[i])>> : i \in DOMAIN ps}
\* The explicit structured parameters of an input.
Explicit(sp) == SelectSeq(sp, LAMBDA e : e.key # "q")
FilterKeys ==
    {"brand", "model", "year", "min_repairability", "max_repairability",
     "min_reliability", "max_reliability"}
SortKeys == {"sort_by", "sort_order"}
\* An input with neither a free-text term nor a structured filter.
NoTermNoFilter(sp) == \A k \in FilterKeys \cup {"q"} : Value(sp, k) = ""

C13_ExplicitParamsWin ==
    (Rendered /\ \E k \in FilterKeys \cup SortKeys : Value(searchParams, k) # "")
    => /\ ~finalParams.isNull
       /\ Pairs(finalParams.entries) \ {<<"q", "">>}
            = Pairs(Explicit(searchParams))

\* C13, amended: a non-empty free-text q wins; the produced query is the
\* one q alone produces and carries none of the explicit brand, model or
\* sort values.  The explicit parameters are used, verbatim, only when q
\* is absent or empty.
C13_FreeTextWins ==
    Rendered =>
        IF Value(searchParams, "q") # ""
        THEN /\ finalParams = FinalParams(<<Entry(searchParams, "q")>>)
             /\ \A k \in {"brand", "model"} : ~HasKey(finalParams.entries, k)
             /\ Entry(finalParams.entries, "limit").kind = "number"
        ELSE finalParams.entries = searchParams

\* A search was made for an input holding both a raw query and a brand.
C13_Witness ==
    /\ pcUI = "searched"
    /\ Value(searchParams, "q") # ""
    /\ Value(searchParams, "brand") # ""
    /\ ~HasKey(finalParams.entries, "brand")


\* ---- the keyword rules as the claims number them
\* Rule n matches raw query q: 1 repairability, 2 reliability,
\* 3 durability, 4 excellent, 5 budget, 6 a year token 20dd, 7 a known
\* brand name (rule 8, free text, is what remains).
RuleMatches(n, q) ==
    LET low == ToLowerCase(q)
    IN  CASE n = 1 -> Includes(low, "r#parable") \/ Includes(low, "repairability")
          [] n = 2 -> Includes(low, "fiable") \/ Includes(low, "reliability")
          [] n = 3 -> Includes(low, "durable") \/ Includes(low, "durability")
          [] n = 4 -> Includes(low, "excellent") \/ Includes(low, "meilleur")
          [] n = 5 -> Includes(low, "bon march#") \/ Includes(low, "#conomique")
          [] n = 6 -> \E i \in 1 .. Len(q) : YearMatchAt(q, i)
          [] n = 7 -> \E b \in {"samsung", "lg", "bosch", "whirlpool"} :
                         Includes(low, b)
MatchingRules(q) == {n \in 1 .. 7 : RuleMatches(n, q)}
\* The lowest-numbered matching rule, 8 when none of 1..7 matches.
FirstRule(q) ==
    IF MatchingRules(q) = {} THEN 8
    ELSE CHOOSE n \in MatchingRules(q) : \A m \in MatchingRules(q) : n <= m
\* The years (20dd tokens) of q.
YearTokens(q) ==
    {ToString(ParseInt(SubSeq(q, i, i + 3))) :
        i \in {j \in 1 .. Len(q) : YearMatchAt(q, j)}}
\* What rule n alone makes of q, as the set of its key/value pairs; the
\* year rule may take any year token of q.
RuleOutputs(n, q) ==
    CASE n = 1 -> {{<<"limit", "20">>, <<"sort_by", "note_reparabilite">>,
                    <<"sort_order", "DESC">>, <<"min_repairability", "7">>}}
      [] n = 2 -> {{<<"limit", "20">>, <<"sort_by", "note_fiabilite">>,
                    <<"sort_order", "DESC">>, <<"min_reliability", "6">>}}
      [] n = 3 -> {{<<"limit", "20">>, <<"sort_by", "note_id">>,
                    <<"sort_order", "DESC">>}}
      [] n = 4 -> {{<<"limit", "15">>, <<"sort_by", "note_id">>,
                    <<"sort_order", "DESC">>, <<"min_repairability", "8">>,
                    <<"min_reliability", "7">>}}
      [] n = 5 -> {{<<"limit", "15">>, <<"sort_by", "note_id">>,
                    <<"sort_order", "DESC">>, <<"max_repairability", "6">>,
                    <<"max_reliability", "6">>}}
      [] n = 6 -> {{<<"limit", "20">>, <<"year", y>>,
                    <<"sort_by", "date_calcul">>, <<"sort_order", "DESC">>} :
                   y \in YearTokens(q)}
      [] n = 7 -> {{<<"limit", "20">>, <<"brand", q>>}}
      [] n = 8 -> {{<<"limit", "20">>, <<"q", q>>}}
\* The raw query of the rendered input, when it has one.
RawQuery == Value(searchParams, "q")

\* C14: for a raw query matching several keyword rules the produced query
\* is what the lowest-numbered matching rule alone produces, with no field
\* of a lower-priority rule.
C14_FirstMatchingRuleAlone ==
    (Rendered /\ RawQuery # "" /\ Cardinality(MatchingRules(RawQuery)) >= 2)
    => Pairs(finalParams.entries) \in RuleOutputs(FirstRule(RawQuery), RawQuery)

\* C15: a raw query matching none of rules 1-5 and holding a year token
\* 20dd gets that year as its year filter and is sorted by date_calcul,
\* descending.
C15_YearTokenSetsYearFilter ==
    (Rendered /\ RawQuery # "" /\ FirstRule(RawQuery) = 6)
    => /\ Value(finalParams.entries, "year") \in YearTokens(RawQuery)
       /\ Value(finalParams.entries, "sort_by") = "date_calcul"
       /\ Value(finalParams.entries, "sort_order") = "DESC"

\* C16: a raw query matching none of rules 1-6 and holding a known brand
\* name gets the raw text as its brand filter and no free-text term.
C16_BrandNameSetsBrandFilter ==
    (Rendered /\ RawQuery # "" /\ FirstRule(RawQuery) = 7)
    => /\ Value(finalParams.entries, "brand") = RawQuery
       /\ ~HasKey(finalParams.entries, "q")

\* C17: the produced query carries q, equal to the whole raw text and with
\* no sort_by/sort_order, exactly when no keyword, year or brand rule
\* matched; when one matched, q is absent.
C17_FreeTextOnlyWhenNoRuleMatched ==
    (Rendered /\ RawQuery # "")
    => /\ HasKey(finalParams.entries, "q") <=> (FirstRule(RawQuery) = 8)
       /\ HasKey(finalParams.entries, "q")
          => /\ Value(finalParams.entries, "q") = RawQuery
             /\ \A k \in SortKeys : ~HasKey(finalParams.entries, k)

\* C18: for an input of explicit parameters only, without a page size, the
\* produced query holds those parameters, limit 20, and no sort field the
\* input did not hold.
C18_DefaultLimitOnExplicitInput ==
    (/\ Rendered
     /\ ~HasKey(searchParams, "q")
     /\ searchParams # <<>>
     /\ ~HasKey(searchParams, "limit"))
    => /\ ~finalParams.isNull
       /\ Pairs(searchParams) \subseteq Pairs(finalParams.entries)
       /\ Value(finalParams.entries, "limit") = "20"
       /\ \A k \in SortKeys :
             HasKey(finalParams.entries, k) => HasKey(searchParams, k)


\* ---- affiliate links
\* The ASIN product URL and the search URL, in the documented formats.
ProductUrlFormat(host, asin, tag) ==
    "https://" \o host \o "/dp/" \o asin \o "?tag=" \o tag
SearchUrlFormat(host, keywords, tag) ==
    "https://" \o host \o "/s?k=" \o keywords \o "&tag=" \o tag

\* C19: getBestAffiliateLink returns the direct product URL, unmodified and
\* direct, whenever one is given, with or without an ASIN; else the ASIN
\* product URL, direct, when an ASIN is given; and a search URL, not
\* direct, only when both are missing.
C19_LinkPrecedence ==
    product.fn = "getBestAffiliateLink" =>
        IF Truthy(product.amazonProductUrl)
        THEN /\ link.url = product.amazonProductUrl.str
             /\ link.isDirect
        ELSE IF Truthy(product.asin)
        THEN /\ link.url = ProductUrlFormat(Host(LocaleOf(product)),
                                            product.asin.str, TagOf(product))
             /\ link.isDirect
        ELSE /\ ~link.isDirect
             /\ link.type = "search"
             /\ Includes(link.url, "/s?k=")
             /\ ~Includes(link.url, "/dp/")

\* A direct URL and an ASIN were both given and the direct URL came back.
C19_Witness ==
    /\ product.fn = "getBestAffiliateLink"
    /\ Truthy(product.amazonProductUrl)
    /\ Truthy(product.asin)
    /\ link.url = product.amazonProductUrl.str
    /\ link.isDirect

\* C20: the search URL is https://{host}/s?k={keywords}&tag={tag}, the
\* keywords being brand, a space and model with the space written %20
\* (for LG / F4V510WSE / fr and the default tag,
\* https://www.amazon.fr/s?k=LG%20F4V510WSE&tag=lebrugere-21), from every
\* implementation of buildAmazonAffiliateSearchUrl.
C20_SearchUrlFormat ==
    (/\ product.fn \in {"part_011", "lib/affiliate.ts"}
     /\ product.brand # ""
     /\ Truthy(product.model))
    => /\ link.url =
            SearchUrlFormat(Host(LocaleOf(product)),
                            EncodeURIComponent(product.brand \o " "
                                               \o product.model.str),
                            TagOf(product))
       /\ (/\ product.brand = "LG"
           /\ product.model.str = "F4V510WSE"
           /\ LocaleOf(product) = "fr"
           /\ ~product.tag.present)
          => link.url = "https://www.amazon.fr/s?k=LG%20F4V510WSE&tag=lebrugere-21"

\* C21: getBestAffiliateLink always returns one link, whatever of brand,
\* model, ASIN and direct URL is given, empty or missing; and when brand is
\* empty the keywords of the search URL are the model alone (the empty
\* string when there is no model), with no space before or after.
C21_AlwaysOneLink ==
    product.fn = "getBestAffiliateLink" =>
        /\ link.type \in {"product", "search"}
        /\ link.url # ""
        /\ link.type = "search" =>
              /\ ~Includes(link.url, "k=%20")
              /\ ~Includes(link.url, "%20&tag=")
              /\ product.brand = "" =>
                    link.url = SearchUrlFormat(
                                   Host(LocaleOf(product)),
                                   EncodeURIComponent(OrEmpty(product.model)),
                                   TagOf(product))

\* The search fallback was taken for an empty brand and a model.
C21_Witness ==
    /\ product.fn = "getBestAffiliateLink"
    /\ product.brand = ""
    /\ Truthy(product.model)
    /\ link.type = "search"
    /\ Includes(link.url, "/s?k=" \o EncodeURIComponent(product.model.str))

FailedWith(c, ends) ==
    /\ Done(c)
    /\ callers[c].promise # 0
    /\ fetches[callers[c].promise].status \in ends

C24_BrandsFailureNonFatal ==
    [][ /\ error' = error
        /\ \A r \in InFlight :
              fetches'[r].status \in {"http", "net"} => brands' = brands
        /\ brands' # brands =>
              \/ \E r \in DOMAIN fetches' :
                    /\ Succeeded(fetches'[r].status)
                    /\ brands' = FetchBrandsResult(r, fetches'[r].status)
              \/ navCaller' # navCaller /\ brands' = <<>> ]_vars

C24_Witness ==
    /\ navCaller # 0
    /\ callers[navCaller].pc = "done"
    /\ callers[navCaller].result.kind = "error"
    /\ callers[navCaller].promise = navCaller
    /\ brands = <<>>
    /\ error = NoResult

\* Request r is the one pendingRequests tracks for its key.  A request in
\* flight that is not tracked was issued before a clearCache().
Tracked(r) ==
    LET k == CacheKey(fetches[r].url)
    IN  k \in DOMAIN pendingRequests /\ pendingRequests[k] = r

\* C25: after clearCache(), the response to a request issued before the
\* clear is never written into the cache (and so never served from it to a
\* later caller): the completion of a request that lost its tracker to a
\* clearCache() leaves the cache unchanged.
C25_ClearedRequestNeverCached ==
    [][ \A r \in InFlight :
           (fetches'[r].status # "inflight" /\ ~Tracked(r)) => cache' = cache
      ]_vars

\* C26: no in-flight tracker is leaked.  Every key of pendingRequests
\* tracks a network call for that key that has not completed, and no
\* completed request is tracked under any key.
C26_NoTrackerLeaked ==
    /\ \A k \in DOMAIN pendingRequests :
          /\ pendingRequests[k] \in InFlight
          /\ CacheKey(fetches[pendingRequests[k]].url) = k
    /\ \A r \in DOMAIN fetches :
          fetches[r].status # "inflight" =>
             \A k \in DOMAIN pendingRequests : pendingRequests[k] # r

\* A request has completed, with success or failure, while another one is
\* still tracked.
C26_Witness ==
    /\ \E r \in DOMAIN fetches : fetches[r].status = "ok"
    /\ \E r \in DOMAIN fetches : fetches[r].status \in {"http", "net"}
    /\ \E r \in InFlight : Tracked(r)

\* C27: no key has both a fresh cache entry and a tracker in
\* pendingRequests.
C27_FreshEntryExcludesTracker ==
    \A k \in DOMAIN cache :
       now - cache[k].timestamp < CACHE_DURATION =>
          k \notin DOMAIN pendingRequests

\* A key has a stale entry and a tracker, and another key a fresh entry.
C27_Witness ==
    /\ \E k \in DOMAIN cache :
          /\ now - cache[k].timestamp >= CACHE_DURATION
          /\ k \in DOMAIN pendingRequests
    /\ \E k \in DOMAIN cache : now - cache[k].timestamp < CACHE_DURATION

\* C28: every cache entry holds the body of a successful response to a
\* request of its own key, and the data a caller receives is a body for the
\* URL it asked for; no entry comes from a failed response.
C28_EntriesHoldOwnSuccessfulBody ==
    /\ \A k \in DOMAIN cache :
          LET d == cache[k].data
          IN  /\ d.kind = "data"
              /\ d.url = k
              /\ d.req \in DOMAIN fetches
              /\ fetches[d.req].status = "ok"
              /\ CacheKey(fetches[d.req].url) = k
    /\ \A c \in Callers :
          (Done(c) /\ callers[c].result.kind = "data") =>
             callers[c].result.url = callers[c].url

\* A caller was served from the cache, and a request of another URL
\* failed and left no entry.
C28_Witness ==
    /\ \E c \in Callers : Done(c) /\ callers[c].route = "cache"
    /\ \E r \in DOMAIN fetches :
          /\ fetches[r].status \in {"http", "net"}
          /\ CacheKey(fetches[r].url) \notin DOMAIN cache
          /\ DOMAIN cache # {}

\* The cache entry and the tracker of every key other than K are the same
\* before and after the step.
OtherKeysUnchanged(K) ==
    \A k \in (DOMAIN cache \cup DOMAIN cache' \cup DOMAIN pendingRequests
              \cup DOMAIN pendingRequests') \ {K} :
       /\ (k \in DOMAIN cache) = (k \in DOMAIN cache')
       /\ k \in DOMAIN cache => cache'[k] = cache[k]
       /\ (k \in DOMAIN pendingRequests) = (k \in DOMAIN pendingRequests')
       /\ k \in DOMAIN pendingRequests =>
             pendingRequests'[k] = pendingRequests[k]

\* C30: a cachedFetch call for key K, and the completion of a network call
\* for key K, leave the cache entry and the tracker of every other key
\* unchanged.
C30_OtherKeysUntouched ==
    [][ /\ \A c \in Callers :
              (~Called(c) /\ callers'[c].pc # "idle") =>
                 OtherKeysUnchanged(CacheKey(callers'[c].url))
        /\ \A r \in InFlight :
              fetches'[r].status # "inflight" =>
                 OtherKeysUnchanged(CacheKey(fetches[r].url)) ]_vars

\* A request of one key has completed while an earlier request, still in
\* flight, was tracked under another key, and still is.
C30_Witness ==
    \E r \in DOMAIN fetches, k \in DOMAIN pendingRequests :
       /\ fetches[r].status # "inflight"
       /\ CacheKey(fetches[r].url) # k
       /\ pendingRequests[k] < r

\* C29: provided every network call issued eventually completes, every
\* caller of cachedFetch eventually receives data or an error, also when
\* the tracker of the request it waits for was removed by clearCache() or
\* by the completion of another request for the same key.
C29_EveryCallerAnswered ==
    \A c \in Callers :
       (callers[c].pc = "waiting") ~>
          (Done(c) /\ callers[c].result.kind \in {"data", "error"})

\* A caller that joined a pending request was answered by it after the
\* request had lost its tracker.
C29_Witness ==
    \E c \in orphans :
       /\ callers[c].route = "pending"
       /\ Done(c)
       /\ callers[c].result.req = callers[c].promise
====
